---- MODULE Spec2Model ----
(***************************************************************************)
(* The dm "po2zone" target: a zoned block device whose zones have an       *)
(* arbitrary number of sectors is presented as a device whose zones have   *)
(* a power-of-two number of sectors.  Sectors of the target ("logical")    *)
(* between the zone capacity and the power-of-two zone size are emulated:  *)
(* they read as zeroes and nothing else may touch them.                    *)
(*                                                                         *)
(* Sector numbers are sector_t (64-bit) values, zone numbers unsigned int. *)
(* The constructor computes the geometry at the width the code gives each  *)
(* expression: 1 << n is an int, the fields of struct dm_po2z_target and   *)
(* ti->len are 64-bit words, kept here as four 16-bit limbs.  The bios of  *)
(* specification Spec run on zone sizes far below 2^30 sectors, where no   *)
(* arithmetic of the target wraps; specification SpecCtr runs the          *)
(* constructor alone and adds zone sizes around 2^30 sectors.              *)
(***************************************************************************)
EXTENDS Integers, Sequences, FiniteSets

\* ------------------------------------------------------------------ bounds
MaxZoneSize == 6        \* largest zone size (sectors) of the backing device
MaxZones == 2           \* largest number of zones of the backing device
MaxLen == 4             \* largest number of sectors a submitted bio carries

\* ------------------------------------------------------- kernel constants
SECTOR_SHIFT == 9

VARIABLES
    bdev,       \* the backing device: [zone_sectors, capacity]
    ti,         \* struct dm_target: [begin, len, max_io_len, error],
                \* len and max_io_len as 64-bit words
    private,    \* ti->private, struct dm_po2z_target (its sector_t fields
                \* as 64-bit words), or NoDmh
    ctr_ret,    \* "none" before dm_po2z_ctr ran, then its return value
    warned,     \* DMWARN of dm_po2z_ctr was emitted
    ci,         \* what is left of the bio the caller submitted
    bio,        \* the clone last handed to dm_po2z_map, as the target left it
    map_ret,    \* what dm_po2z_map returned for it
    inflight,   \* the clone is with the backing device
    steps,      \* the routing steps of the bio the caller submitted
    endio,      \* the last completion seen by dm_po2z_end_io
    rz,         \* zone report in progress: dm_report_zones_args and cursor
    zone,       \* the descriptor last passed through dm_po2z_report_zones_cb
    reported    \* position of every descriptor handed to the caller's callback

vars == <<bdev, ti, private, ctr_ret, warned, ci, bio, map_ret, inflight, steps,
          endio, rz, zone, reported>>

NoDmh == [set |-> FALSE]
NoBio == [op |-> "NONE"]
NoCi == [op |-> "NONE", done |-> TRUE]
NoRz == [active |-> FALSE]
NoZone == [set |-> FALSE]

\* ------------------------------------------------ integer helpers (kernel)
RECURSIVE fls_long(_)
\* position of the most significant set bit, counting from 1; 0 for 0
fls_long(x) == IF x = 0 THEN 0 ELSE 1 + fls_long(x \div 2)

get_count_order_long(l) == IF l = 0 THEN -1 ELSE fls_long(l - 1)

ilog2(x) == fls_long(x) - 1

RECURSIVE is_power_of_2_from(_, _)
is_power_of_2_from(n, p) ==
    IF p > n THEN FALSE
    ELSE IF p = n THEN TRUE
    ELSE IF p > n \div 2 THEN FALSE
    ELSE is_power_of_2_from(n, 2 * p)

is_power_of_2(n) == n # 0 /\ is_power_of_2_from(n, 1)

\* x >> s on a sector, and nr << SECTOR_SHIFT on the sector count of a bio
\* (bi_size, unsigned int): neither wraps on the bios of the model
ShiftRight(x, s) == x \div (2 ^ s)
ShiftLeft(x, s) == x * (2 ^ s)

\* ------------------------------------------------------------ integer widths
\* A 64-bit word (sector_t, u64) is <<w0, w1, w2, w3>>, four 16-bit limbs,
\* least significant first: its value is w0 + 2^16 w1 + 2^32 w2 + 2^48 w3.
Limb == 2 ^ 16

\* the word of a value 0 <= n < 2^31
U64(n) == <<n % Limb, n \div Limb, 0, 0>>

\* the value of a word below 2^31
Val(w) == w[1] + Limb * w[2]

\* (sector_t)v for an int v: a negative int is sign-extended to 64 bits
U64FromInt(v) ==
    IF v >= 0 THEN U64(v)
    ELSE LET u == (v + 2 ^ 30) + 2 ^ 30      \* v + 2^31, the low 31 bits
         IN <<u % Limb, 2 ^ 15 + (u \div Limb), Limb - 1, Limb - 1>>

\* a - b on 64-bit words, modulo 2^64
U64Sub(a, b) ==
    LET d1 == a[1] - b[1]
        d2 == a[2] - b[2] - (IF d1 < 0 THEN 1 ELSE 0)
        d3 == a[3] - b[3] - (IF d2 < 0 THEN 1 ELSE 0)
        d4 == a[4] - b[4] - (IF d3 < 0 THEN 1 ELSE 0)
    IN <<d1 % Limb, d2 % Limb, d3 % Limb, d4 % Limb>>

\* a * k on a 64-bit word and a count 0 <= k < 2^15, modulo 2^64
U64Mul(a, k) ==
    LET p1 == a[1] * k
        p2 == a[2] * k + (p1 \div Limb)
        p3 == a[3] * k + (p2 \div Limb)
        p4 == a[4] * k + (p3 \div Limb)
    IN <<p1 % Limb, p2 % Limb, p3 % Limb, p4 % Limb>>

\* (uint32_t)w: the low 32 bits of a word
U32(w) == <<w[1], w[2], 0, 0>>

\* ilog2 of a 64-bit word
ilog2_u64(w) ==
    IF w[4] # 0 THEN 48 + ilog2(w[4])
    ELSE IF w[3] # 0 THEN 32 + ilog2(w[3])
    ELSE IF w[2] # 0 THEN 16 + ilog2(w[2])
    ELSE ilog2(w[1])

\* The int expression 1 << s of line 85.  The literal 1 is a 32-bit int, so
\* the shift is done in 32 bits: 2^s up to s = 30, and INT_MIN = -2^31 for
\* s = 31 (the kernel is built with -fno-strict-overflow, the sign bit is
\* simply set).  A count of 32 or more is undefined in C; the zone sizes that
\* lead there, above 2^31 sectors, are outside the model, and the operator
\* takes the count modulo 32 as the shift instruction of x86 does.
int_shl_1(s) ==
    LET c == s % 32
    IN IF c <= 30 THEN 2 ^ c ELSE (-(2 ^ 30)) - 2 ^ 30

\* ------------------------------------------------------ coordinate transform
npo2_zone_no(d, sect) == sect \div d.zone_size

po2_zone_no(d, sect) == ShiftRight(sect, d.zone_size_po2_shift)

target_to_device_sect(d, sect) == sect - (po2_zone_no(d, sect) * d.zone_size_diff)

\* mutant: the zone of a device sector taken with the power-of-two shift
device_to_target_sect_shift(d, sect) == sect + (po2_zone_no(d, sect) * d.zone_size_diff)

device_to_target_sect(d, sect) == sect + (npo2_zone_no(d, sect) * d.zone_size_diff)

\* -------------------------------------------------------------- constructor
\* The struct dm_po2z_target that dm_po2z_ctr fills in (lines 84-87, 90).
\* zone_size (bdev_zone_sectors) and len (ti->len) are values below 2^31.
po2z_geometry(zone_size, len) ==
    LET po2 == U64FromInt(int_shl_1(get_count_order_long(zone_size)))
    IN [set |-> TRUE,
        zone_size |-> U64(zone_size),
        zone_size_po2 |-> po2,
        zone_size_po2_shift |-> ilog2_u64(po2),
        zone_size_diff |-> U64Sub(po2, U64(zone_size)),
        nr_zones |-> npo2_zone_no([zone_size |-> zone_size], len)]

\* mutant: bios may span two logical zones
po2z_max_io_len_two_zones(g) == U64Mul(U32(g.zone_size_po2), 2)

\* ti->max_io_len as dm_po2z_ctr sets it (line 89)
po2z_max_io_len(g) == U32(g.zone_size_po2)

dm_po2z_ctr ==
    /\ ctr_ret = "none"
    /\ \E argc \in {1, 2}, kmalloc_ok \in BOOLEAN, get_device_ret \in {"0", "ENXIO"} :
        IF argc # 1 THEN
            /\ ctr_ret' = "EINVAL"
            /\ UNCHANGED <<ti, private, warned>>
        ELSE IF ~kmalloc_ok THEN
            /\ ctr_ret' = "ENOMEM"
            /\ UNCHANGED <<ti, private, warned>>
        ELSE IF get_device_ret # "0" THEN
            /\ ctr_ret' = get_device_ret
            /\ ti' = [ti EXCEPT !.error = "Device lookup failed"]
            /\ UNCHANGED <<private, warned>>
        ELSE IF ti.len # U64(bdev.capacity) \/ ti.begin # 0 THEN
            /\ ctr_ret' = "EINVAL"
            /\ UNCHANGED <<ti, private, warned>>
        ELSE
            LET g == po2z_geometry(bdev.zone_sectors, Val(ti.len)) IN
            /\ warned' = is_power_of_2(bdev.zone_sectors)
            /\ private' = g
            /\ ti' = [ti EXCEPT !.max_io_len = po2z_max_io_len(g),
                                !.len = U64Mul(g.zone_size_po2, g.nr_zones)]
            /\ ctr_ret' = "0"
    /\ UNCHANGED <<bdev, ci, bio, map_ret, inflight, steps, endio, rz, zone, reported>>

\* zone sizes on both sides of 2^30 sectors, where 1 << n reaches the sign
\* bit of an int: 2^30 - 1, 2^30, 2^30 + 1 and 2^31 - 1
WideZoneSizes == {2 ^ 30 - 1, 2 ^ 30, 2 ^ 30 + 1, (2 ^ 30 - 1) + 2 ^ 30}

\* the table line and the backing device before dm_po2z_ctr runs; a backing
\* device with a zone size of WideZoneSizes has one zone
InitFrom(ZoneSizes) ==
    /\ \E zs \in ZoneSizes, nz \in 1..MaxZones, rem \in {0, 1},
          begin \in {0, 1}, short \in {0, 1} :
        /\ rem < zs
        /\ zs \in WideZoneSizes => (nz = 1 /\ rem = 0)
        /\ bdev = [zone_sectors |-> zs, capacity |-> zs * nz + rem]
        /\ ti = [begin |-> begin, len |-> U64(zs * nz + rem - short),
                 max_io_len |-> U64(0), error |-> "none"]
    /\ private = NoDmh
    /\ ctr_ret = "none"
    /\ warned = FALSE
    /\ ci = NoCi
    /\ bio = NoBio
    /\ map_ret = "none"
    /\ inflight = FALSE
    /\ steps = <<>>
    /\ endio = NoBio
    /\ rz = NoRz
    /\ zone = NoZone
    /\ reported = <<>>

Init == InitFrom(1..MaxZoneSize)

InitCtr == InitFrom((1..MaxZoneSize) \cup WideZoneSizes)

\* struct dm_po2z_target *dmh = ti->private, as the map, end_io and report
\* functions read it: every field a value, which it is below 2^31
Geo(d) ==
    IF d.set
    THEN [set |-> TRUE,
          zone_size |-> Val(d.zone_size),
          zone_size_po2 |-> Val(d.zone_size_po2),
          zone_size_po2_shift |-> d.zone_size_po2_shift,
          zone_size_diff |-> Val(d.zone_size_diff),
          nr_zones |-> d.nr_zones]
    ELSE d

dmh == Geo(private)

\* ------------------------------------------------------------------ bios
ZoneMgmtOps == {"ZONE_RESET", "ZONE_OPEN", "ZONE_CLOSE", "ZONE_FINISH"}

\* the operations a caller submits in this model
SubmittedOps == {"READ", "WRITE", "ZONE_APPEND", "ZONE_RESET", "ZONE_FINISH"}

op_is_zone_mgmt(op) == op \in ZoneMgmtOps

bio_sectors(b) == ShiftRight(b.bi_size, SECTOR_SHIFT)

Min(a, b) == IF a < b THEN a ELSE b

\* a bio of nr sectors at sector; data is the buffer of a read, sector by
\* sector: "stale" as allocated, "zero" once zeroed, "device" once read
NewBio(op, sector, nr) ==
    [op |-> op, bi_bdev |-> "dm", bi_sector |-> sector,
     bi_size |-> ShiftLeft(nr, SECTOR_SHIFT), bi_status |-> "BLK_STS_OK",
     data |-> IF op = "READ" THEN [i \in 1..nr |-> "stale"] ELSE <<>>,
     ended |-> FALSE]

bio_set_dev(b, dev) == [b EXCEPT !.bi_bdev = dev]

\* the target takes only the first n_sectors of the bio
dm_accept_partial_bio(b, n_sectors) ==
    [b EXCEPT !.bi_size = ShiftLeft(n_sectors, SECTOR_SHIFT),
              !.data = IF b.op = "READ" THEN SubSeq(b.data, 1, n_sectors) ELSE b.data]

zero_fill_bio(b) == [b EXCEPT !.data = [i \in 1..Len(b.data) |-> "zero"]]

\* ------------------------------------------------------------ completion hook
\* mutant: the sector is rewritten whatever the status
po2z_end_io_any_status(d, b) ==
    IF b.op = "ZONE_APPEND"
    THEN [b EXCEPT !.bi_sector = device_to_target_sect(d, b.bi_sector)]
    ELSE b

\* dm_po2z_end_io as a function of the completed bio
po2z_end_io(d, b) ==
    IF b.bi_status = "BLK_STS_OK" /\ b.op = "ZONE_APPEND"
    THEN [b EXCEPT !.bi_sector = device_to_target_sect(d, b.bi_sector)]
    ELSE b

\* bio_endio of a clone ends it and runs the target's end_io on it
bio_endio(d, b) == po2z_end_io(d, [b EXCEPT !.ended = TRUE])

\* ------------------------------------------------------------------ I/O mapper
\* mutant: the bio is compared with the end of the logical zone
bio_across_zone_end(d, b) ==
    LET zone_idx == po2_zone_no(d, b.bi_sector)
        nr_sectors == ShiftRight(b.bi_size, SECTOR_SHIFT)
    IN (b.bi_sector + nr_sectors) > (zone_idx * d.zone_size_po2) + d.zone_size_po2

bio_across_emulated_zone_area(d, b) ==
    LET zone_idx == po2_zone_no(d, b.bi_sector)
        nr_sectors == ShiftRight(b.bi_size, SECTOR_SHIFT)
    IN (b.bi_sector + nr_sectors) > (zone_idx * d.zone_size_po2) + d.zone_size

\* mutant: the accepted part keeps its logical sector
dm_po2z_map_read_not_remapped(d, b) ==
    LET start_sect == b.bi_sector
        zone_idx == po2_zone_no(d, start_sect)
        relative_sect_in_zone == start_sect - (zone_idx * d.zone_size_po2)
        split_io_pos == (zone_idx * d.zone_size_po2) + d.zone_size
    IN IF relative_sect_in_zone < d.zone_size
       THEN [ret |-> "DM_MAPIO_REMAPPED",
             bio |-> dm_accept_partial_bio(b, split_io_pos - start_sect)]
       ELSE [ret |-> "DM_MAPIO_SUBMITTED",
             bio |-> bio_endio(d, zero_fill_bio(b))]

dm_po2z_map_read_emulated_area(d, b) ==
    LET start_sect == b.bi_sector
        zone_idx == po2_zone_no(d, start_sect)
        relative_sect_in_zone == start_sect - (zone_idx * d.zone_size_po2)
        split_io_pos == (zone_idx * d.zone_size_po2) + d.zone_size
    IN IF relative_sect_in_zone < d.zone_size
       THEN [ret |-> "DM_MAPIO_REMAPPED",
             bio |-> [dm_accept_partial_bio(b, split_io_pos - start_sect)
                        EXCEPT !.bi_sector = target_to_device_sect(d, start_sect)]]
       ELSE [ret |-> "DM_MAPIO_SUBMITTED",
             bio |-> bio_endio(d, zero_fill_bio(b))]

\* mutant: a read across the emulated area is killed like any other bio
po2z_map_kill_reads(d, b0) ==
    LET b == bio_set_dev(b0, "bdev") IN
    IF bio_sectors(b) # 0 \/ op_is_zone_mgmt(b.op)
    THEN IF ~bio_across_emulated_zone_area(d, b)
         THEN [ret |-> "DM_MAPIO_REMAPPED",
               bio |-> [b EXCEPT !.bi_sector = target_to_device_sect(d, b.bi_sector)]]
         ELSE [ret |-> "DM_MAPIO_KILL", bio |-> b]
    ELSE [ret |-> "DM_MAPIO_REMAPPED", bio |-> b]

\* dm_po2z_map as a function of the bio: the return value and the bio it leaves
po2z_map(d, b0) ==
    LET b == bio_set_dev(b0, "bdev") IN
    IF bio_sectors(b) # 0 \/ op_is_zone_mgmt(b.op)
    THEN IF ~bio_across_emulated_zone_area(d, b)
         THEN [ret |-> "DM_MAPIO_REMAPPED",
               bio |-> [b EXCEPT !.bi_sector = target_to_device_sect(d, b.bi_sector)]]
         ELSE IF b.op = "READ"
              THEN dm_po2z_map_read_emulated_area(d, b)
              ELSE [ret |-> "DM_MAPIO_KILL", bio |-> b]
    ELSE [ret |-> "DM_MAPIO_REMAPPED", bio |-> b]

\* -------------------------------------------------- device-mapper core (caller)
Idle == /\ ctr_ret = "0"
        /\ ~inflight
        /\ ~rz.active
        /\ ci.done

\* sectors from sector to the next multiple of ti->max_io_len
max_io_len(t, sector) == t.max_io_len - (sector % t.max_io_len)

\* a caller submits a bio to the mapped device
dm_submit_bio ==
    /\ Idle
    /\ \E op \in SubmittedOps, sector \in 0..(Val(ti.len) - 1), nr \in 0..MaxLen :
        /\ sector + nr <= Val(ti.len)
        /\ nr = 0 => op \in {"WRITE"} \cup ZoneMgmtOps
        /\ ci' = [op |-> op, sector |-> sector, sector_count |-> nr,
                  start |-> sector, nr |-> nr, done |-> FALSE]
    /\ bio' = NoBio
    /\ map_ret' = "none"
    /\ steps' = <<>>
    /\ endio' = NoBio
    /\ rz' = NoRz
    /\ zone' = NoZone
    /\ reported' = <<>>
    /\ UNCHANGED <<bdev, ti, private, ctr_ret, warned, inflight>>

\* the core clones the next piece of the bio, at most up to the next multiple
\* of ti->max_io_len, and hands the clone to the target's map function
dm_po2z_map ==
    /\ ctr_ret = "0"
    /\ ~ci.done
    /\ ~inflight
    /\ LET len == IF op_is_zone_mgmt(ci.op) \/ ci.sector_count = 0
                  THEN ci.sector_count
                  ELSE Min(max_io_len([max_io_len |-> Val(ti.max_io_len)], ci.sector),
                           ci.sector_count)
           r == po2z_map(dmh, NewBio(ci.op, ci.sector, len))
           taken == IF r.ret = "DM_MAPIO_REMAPPED" THEN bio_sectors(r.bio) ELSE len
       IN /\ bio' = r.bio
          /\ map_ret' = r.ret
          /\ inflight' = (r.ret = "DM_MAPIO_REMAPPED")
          /\ steps' = Append(steps, [sector |-> ci.sector, nr |-> taken,
                                     ret |-> r.ret, bi_sector |-> r.bio.bi_sector,
                                     data |-> r.bio.data])
          /\ endio' = IF r.bio.ended
                      THEN [op |-> r.bio.op, bi_status |-> r.bio.bi_status,
                            before |-> ci.sector, after |-> r.bio.bi_sector,
                            zone |-> po2_zone_no(dmh, ci.sector)]
                      ELSE endio
          /\ ci' = [ci EXCEPT !.sector = ci.sector + taken,
                              !.sector_count = ci.sector_count - taken,
                              !.done = (r.ret = "DM_MAPIO_KILL")
                                       \/ (ci.sector_count - taken = 0)]
    /\ UNCHANGED <<bdev, ti, private, ctr_ret, warned, rz, zone, reported>>

\* the backing device completes the clone and the core runs the target's end_io
dm_po2z_end_io ==
    /\ inflight
    /\ \E status \in {"BLK_STS_OK", "BLK_STS_IOERR"}, landing \in 0..(bdev.capacity - 1) :
        LET zstart == npo2_zone_no(dmh, bio.bi_sector) * dmh.zone_size
            \* a zone append lands where the device's write pointer was,
            \* inside the zone the bio was sent to; other bios keep their sector
            lands == bio.op = "ZONE_APPEND" /\ status = "BLK_STS_OK"
            done == [bio EXCEPT !.bi_status = status,
                                !.bi_sector = IF lands THEN landing ELSE bio.bi_sector,
                                !.data = IF bio.op = "READ" /\ status = "BLK_STS_OK"
                                         THEN [i \in 1..Len(bio.data) |-> "device"]
                                         ELSE bio.data]
            b == bio_endio(dmh, done)
        IN /\ IF lands
              THEN /\ zstart <= landing
                   /\ landing + bio_sectors(bio) <= zstart + dmh.zone_size
              ELSE landing = 0
           /\ bio' = b
           /\ endio' = [op |-> b.op, bi_status |-> b.bi_status,
                        before |-> done.bi_sector, after |-> b.bi_sector,
                        zone |-> po2_zone_no(dmh, steps[Len(steps)].sector)]
           /\ steps' = [steps EXCEPT ![Len(steps)].data = b.data]
    /\ inflight' = FALSE
    /\ UNCHANGED <<bdev, ti, private, ctr_ret, warned, ci, map_ret, rz, zone, reported>>

\* ------------------------------------------------------ zone report translator
\* mutant: the write pointer keeps its offset from the start of the zone
po2z_report_zones_cb_wp_offset(d, z) ==
    LET start == device_to_target_sect(d, z.start)
    IN [z EXCEPT !.start = start,
                 !.wp = start + (z.wp - z.start),
                 !.len = d.zone_size_po2]

\* the descriptor dm_po2z_report_zones_cb leaves in *zone
po2z_report_zones_cb(d, z) ==
    LET start == device_to_target_sect(d, z.start)
    IN [z EXCEPT !.start = start,
                 !.wp = device_to_target_sect(d, z.wp),
                 !.len = d.zone_size_po2]

\* mutant: the zone of the cursor taken by division by zone_size
po2z_report_zones_sect_npo2(d, next_sector) == npo2_zone_no(d, next_sector) * d.zone_size

\* the sector dm_po2z_report_zones asks the backing device to report from
po2z_report_zones_sect(d, next_sector) == po2_zone_no(d, next_sector) * d.zone_size

\* a caller asks for nr_zones zones from next_sector on; the target passes the
\* query to blkdev_report_zones of the backing device
dm_po2z_report_zones ==
    /\ Idle
    /\ \E next_sector \in 0..(Val(ti.len) - 1), nr_zones \in 1..MaxZones :
        rz' = [active |-> TRUE, cursor |-> next_sector, next_sector |-> next_sector,
               zone_idx |-> 0, nr_zones |-> nr_zones,
               sect |-> po2z_report_zones_sect(dmh, next_sector),
               pos |-> po2z_report_zones_sect(dmh, next_sector)]
    /\ ci' = NoCi
    /\ bio' = NoBio
    /\ map_ret' = "none"
    /\ steps' = <<>>
    /\ endio' = NoBio
    /\ zone' = NoZone
    /\ reported' = <<>>
    /\ UNCHANGED <<bdev, ti, private, ctr_ret, warned, inflight>>

\* the conditions a zone with write pointer wp can be reported in
ZoneConds(start, len, wp) ==
    IF wp = start THEN {"EMPTY"}
    ELSE IF wp = start + len THEN {"FULL"}
    ELSE {"IMP_OPEN", "CLOSED"}

\* the backing device reports its next zone, the one at rz.pos, through the callback
dm_po2z_report_zones_cb ==
    /\ rz.active
    /\ LET start == rz.pos
           len == Min(bdev.zone_sectors, bdev.capacity - start)
       IN \E wp \in start..(start + len) : \E cond \in ZoneConds(start, len, wp) :
            LET z == [start |-> start, len |-> len, wp |-> wp, capacity |-> len,
                      type |-> "SEQWRITE_REQ", cond |-> cond]
                out == po2z_report_zones_cb(dmh, z)
                more == rz.zone_idx + 1 < rz.nr_zones /\ start + len < bdev.capacity
            IN /\ zone' = [set |-> TRUE, in |-> z, out |-> out, idx |-> rz.zone_idx]
               /\ reported' = Append(reported, [idx |-> rz.zone_idx,
                                                start |-> out.start, len |-> out.len])
               /\ rz' = [rz EXCEPT !.next_sector = out.start + out.len,
                                   !.zone_idx = rz.zone_idx + 1,
                                   !.pos = start + len,
                                   !.active = more]
    /\ UNCHANGED <<bdev, ti, private, ctr_ret, warned, ci, bio, map_ret, inflight,
                   steps, endio>>

Next ==
    \/ dm_po2z_ctr
    \/ dm_submit_bio
    \/ dm_po2z_map
    \/ dm_po2z_end_io
    \/ dm_po2z_report_zones
    \/ dm_po2z_report_zones_cb

Spec == Init /\ [][Next]_vars

\* the constructor alone, on every zone size of InitCtr
NextCtr == dm_po2z_ctr

SpecCtr == InitCtr /\ [][NextCtr]_vars

\* ===================================================================== claims
\* geometry of the claims, stated without the target's helpers
Constructed == ctr_ret = "0"
ZoneOf(s) == s \div dmh.zone_size_po2
ZoneStart(i) == i * dmh.zone_size_po2
Boundary(i) == i * dmh.zone_size_po2 + dmh.zone_size
ToPhysical(s) == s - ZoneOf(s) * dmh.zone_size_diff
ToLogical(p) == p + (p \div dmh.zone_size) * dmh.zone_size_diff
Mapped == steps # <<>>
LastStep == steps[Len(steps)]
AllZero(data) == \A x \in 1..Len(data) : data[x] = "zero"

\* C1: every write, zone append or zone management bio (zone management also
\* with zero sectors) that starts at or beyond the boundary of its logical
\* zone is killed by dm_po2z_map and never reaches the backing device.
C1_EmulatedWriteRejected ==
    (/\ Mapped
     /\ ci.op # "READ"
     /\ ci.nr >= 1 \/ ci.op \in ZoneMgmtOps
     /\ ci.start >= Boundary(ZoneOf(ci.start)))
    => (LastStep.ret = "DM_MAPIO_KILL" /\ ~inflight)

\* C2 as stated: a read of [boundary(i) - k, boundary(i) + m), k, m > 0 and
\* k <= zone_size, takes two routing steps: k sectors remapped to
\* to_physical(boundary(i) - k), then m sectors from boundary(i) zero-filled.
\* (Taken here only for zones that have an emulated region at all.)
C2_ReadShape ==
    /\ Constructed
    /\ ci.op = "READ"
    /\ ci.done /\ ~inflight
    /\ ci.start < Boundary(ZoneOf(ci.start))
    /\ ci.start + ci.nr > Boundary(ZoneOf(ci.start))

C2_TwoSteps ==
    LET b == Boundary(ZoneOf(ci.start))
        k == b - ci.start
        m == ci.start + ci.nr - b
    IN /\ Len(steps) = 2
       /\ steps[1].sector = ci.start
       /\ steps[1].nr = k
       /\ steps[1].ret = "DM_MAPIO_REMAPPED"
       /\ steps[1].bi_sector = ToPhysical(ci.start)
       /\ steps[2].sector = b
       /\ steps[2].nr = m
       /\ steps[2].ret = "DM_MAPIO_SUBMITTED"
       /\ Len(steps[2].data) = m
       /\ AllZero(steps[2].data)

C2_SplitAnyLength == (C2_ReadShape /\ dmh.zone_size_diff >= 1) => C2_TwoSteps

\* C2, amended: the same, for a read that ends inside logical zone i, that is
\* with m <= zone_size_po2 - zone_size.
C2_SplitWithinZone ==
    (C2_ReadShape /\ ci.start + ci.nr <= ZoneStart(ZoneOf(ci.start) + 1))
    => C2_TwoSteps

C2_Witness ==
    /\ C2_ReadShape
    /\ ci.start + ci.nr <= ZoneStart(ZoneOf(ci.start) + 1)
    /\ ZoneOf(ci.start) >= 1
    /\ Boundary(ZoneOf(ci.start)) - ci.start >= 2
    /\ ci.start + ci.nr - Boundary(ZoneOf(ci.start)) >= 2
    /\ C2_TwoSteps

\* C3: when a read starts in the backed region of logical zone i and runs
\* into zone i+1, the part in the backed region of zone i+1 is a routing step
\* of its own, remapped to to_physical of the start of zone i+1, and its
\* buffer is not synthesized zeroes.
C3_ReadShape ==
    /\ Constructed
    /\ ci.op = "READ"
    /\ ci.done /\ ~inflight
    /\ ci.start < Boundary(ZoneOf(ci.start))
    /\ ci.start + ci.nr > ZoneStart(ZoneOf(ci.start) + 1)

C3_NextZoneRemapped ==
    C3_ReadShape =>
        LET n == ZoneStart(ZoneOf(ci.start) + 1)
            portion == Min(ci.start + ci.nr, Boundary(ZoneOf(ci.start) + 1)) - n
        IN \E j \in 1..Len(steps) :
            /\ steps[j].sector = n
            /\ steps[j].nr = portion
            /\ steps[j].ret = "DM_MAPIO_REMAPPED"
            /\ steps[j].bi_sector = (ZoneOf(ci.start) + 1) * dmh.zone_size
            /\ steps[j].bi_sector = ToPhysical(n)
            /\ Len(steps[j].data) = portion
            /\ \A x \in 1..portion : steps[j].data[x] # "zero"

C3_Witness ==
    /\ C3_ReadShape
    /\ dmh.zone_size_diff >= 1
    /\ ci.start + ci.nr >= ZoneStart(ZoneOf(ci.start) + 1) + 2
    /\ \E j \in 1..Len(steps) :
        /\ steps[j].sector = ZoneStart(ZoneOf(ci.start) + 1)
        /\ steps[j].ret = "DM_MAPIO_REMAPPED"
        /\ steps[j].nr = 2
        /\ steps[j].data = <<"device", "device">>

\* C4: for every logical sector s whose offset in its logical zone is below
\* zone_size, device_to_target_sect(target_to_device_sect(s)) = s.
C4_RoundTrip ==
    Constructed =>
        \A s \in 0..(Val(ti.len) + dmh.zone_size_po2) :
            s - ZoneStart(ZoneOf(s)) < dmh.zone_size
            => device_to_target_sect(dmh, target_to_device_sect(dmh, s)) = s

\* a zone append whose landing sector is the sector it was remapped to
\* comes back at the logical sector it was submitted at
C4_Witness ==
    /\ Constructed
    /\ dmh.zone_size_diff >= 1
    /\ endio.op = "ZONE_APPEND"
    /\ endio.bi_status = "BLK_STS_OK"
    /\ ~inflight /\ Mapped
    /\ ZoneOf(ci.start) >= 1
    /\ endio.before = target_to_device_sect(dmh, ci.start)
    /\ endio.before # ci.start
    /\ endio.after = ci.start

\* C5: a read of at least one sector that lies wholly in the emulated region
\* of one logical zone is completed at once, all of its buffer zero, and no
\* part of it goes to the backing device.
C5_ReadShape ==
    /\ Constructed
    /\ ci.op = "READ"
    /\ ci.nr >= 1
    /\ ci.start >= Boundary(ZoneOf(ci.start))
    /\ ci.start + ci.nr <= ZoneStart(ZoneOf(ci.start) + 1)
    /\ Mapped

C5_ZeroFill ==
    C5_ReadShape =>
        /\ Len(steps) = 1
        /\ steps[1].ret = "DM_MAPIO_SUBMITTED"
        /\ steps[1].nr = ci.nr
        /\ Len(steps[1].data) = ci.nr
        /\ AllZero(steps[1].data)
        /\ bio.ended
        /\ ci.done
        /\ ~inflight

C5_Witness ==
    /\ C5_ReadShape
    /\ ci.nr >= 2
    /\ ci.start > Boundary(ZoneOf(ci.start))
    /\ steps[1].data = [x \in 1..ci.nr |-> "zero"]

\* C6: after a successful construction from any positive zone size,
\* zone_size_po2 is the smallest power of two >= zone_size,
\* 1 << zone_size_po2_shift = zone_size_po2, zone_size_diff =
\* zone_size_po2 - zone_size >= 0, zero only for a power-of-two zone_size; and
\* the values never change afterwards.  Stated on the 64-bit words of the
\* struct, so that it reads the same for every zone size.
U64Pow2(e) ==
    <<IF e \div 16 = 0 THEN 2 ^ (e % 16) ELSE 0,
      IF e \div 16 = 1 THEN 2 ^ (e % 16) ELSE 0,
      IF e \div 16 = 2 THEN 2 ^ (e % 16) ELSE 0,
      IF e \div 16 = 3 THEN 2 ^ (e % 16) ELSE 0>>

U64IsPowerOfTwo(w) == \E e \in 0..63 : w = U64Pow2(e)

\* a <= b on 64-bit words
U64Le(a, b) ==
    \/ a[4] < b[4]
    \/ a[4] = b[4] /\ a[3] < b[3]
    \/ a[4] = b[4] /\ a[3] = b[3] /\ a[2] < b[2]
    \/ a[4] = b[4] /\ a[3] = b[3] /\ a[2] = b[2] /\ a[1] <= b[1]

C6_GeometryOk ==
    /\ private.zone_size = U64(bdev.zone_sectors)
    /\ U64IsPowerOfTwo(private.zone_size_po2)
    /\ U64Le(private.zone_size, private.zone_size_po2)
    /\ \A e \in 0..63 :
           U64Le(private.zone_size, U64Pow2(e))
           => U64Le(private.zone_size_po2, U64Pow2(e))
    /\ private.zone_size_po2_shift \in 0..63
    /\ U64Pow2(private.zone_size_po2_shift) = private.zone_size_po2
    /\ private.zone_size_diff = U64Sub(private.zone_size_po2, private.zone_size)
    /\ (private.zone_size_diff = U64(0)) <=> U64IsPowerOfTwo(private.zone_size)

C6_PowerOfTwoGeometry ==
    /\ [](Constructed => C6_GeometryOk)
    /\ [][Constructed => private' = private]_vars

\* C7 as stated: a zone report with cursor next_sector queries the backing
\* device from (next_sector / zone_size) * zone_size.
C7_QueryStartByPhysicalIndex ==
    rz.active => rz.sect = (rz.cursor \div dmh.zone_size) * dmh.zone_size

\* C7, amended: the query starts at (next_sector >> zone_size_po2_shift) *
\* zone_size, the first sector of the physical zone that backs the logical
\* zone containing the cursor.
C7_QueryStartByLogicalIndex ==
    (rz.active /\ rz.zone_idx = 0) =>
        /\ rz.sect = ZoneOf(rz.cursor) * dmh.zone_size
        /\ rz.sect % dmh.zone_size = 0
        /\ ToLogical(rz.sect) = ZoneStart(ZoneOf(rz.cursor))
        /\ ZoneStart(ZoneOf(rz.cursor)) <= rz.cursor
        /\ rz.cursor < ZoneStart(ZoneOf(rz.cursor) + 1)
        /\ rz.pos = rz.sect

C7_Witness ==
    /\ rz.active /\ rz.zone_idx = 0
    /\ dmh.zone_size_diff >= 1
    /\ rz.cursor = Boundary(1) + 1
    /\ rz.sect = dmh.zone_size
    /\ rz.sect # (rz.cursor \div dmh.zone_size) * dmh.zone_size

\* C8: the descriptor of physical zone i (start = i * zone_size, start <= wp
\* <= start + zone_size) leaves dm_po2z_report_zones_cb with start =
\* i * zone_size_po2, len = zone_size_po2, wp = to_logical(wp) inside
\* [start, start + len] and equal to start + len for a full zone, its other
\* fields unchanged, and the cursor at start + len; consecutive descriptors
\* tile the logical space.
C8_ReportTranslated ==
    zone.set =>
        LET i == zone.in.start \div dmh.zone_size IN
        /\ zone.in.start = i * dmh.zone_size
        /\ zone.out.start = i * dmh.zone_size_po2
        /\ zone.out.len = dmh.zone_size_po2
        /\ zone.out.wp = ToLogical(zone.in.wp)
        /\ zone.out.start <= zone.out.wp
        /\ zone.out.wp <= zone.out.start + zone.out.len
        /\ zone.in.wp < zone.in.start + dmh.zone_size
           => zone.out.wp = zone.out.start + (zone.in.wp - zone.in.start)
        /\ zone.in.wp = zone.in.start + dmh.zone_size
           => zone.out.wp = zone.out.start + zone.out.len
        /\ zone.out.cond = zone.in.cond
        /\ zone.out.type = zone.in.type
        /\ zone.out.capacity = zone.in.capacity
        /\ rz.next_sector = zone.out.start + zone.out.len
        /\ reported[Len(reported)].start = zone.out.start
        /\ reported[Len(reported)].len = zone.out.len
        /\ \A j \in 1..Len(reported) : reported[j].idx = j - 1
        /\ \A j \in 2..Len(reported) :
               reported[j].start = reported[j - 1].start + reported[j - 1].len

C8_Witness ==
    /\ zone.set
    /\ dmh.zone_size_diff >= 1
    /\ Len(reported) >= 2
    /\ zone.in.start >= dmh.zone_size
    /\ zone.in.cond = "FULL"
    /\ zone.in.wp = zone.in.start + dmh.zone_size
    /\ zone.out.wp = zone.out.start + dmh.zone_size_po2

\* C9: a zone append to logical zone i that was remapped and that the device
\* completed successfully at physical sector p of physical zone i is seen by
\* the caller at to_logical(p), inside the backed region of logical zone i;
\* any other completion leaves the sector of the bio unchanged.
C9_EndIoTranslation ==
    endio.op # "NONE" =>
        IF endio.op = "ZONE_APPEND" /\ endio.bi_status = "BLK_STS_OK"
        THEN /\ endio.before \div dmh.zone_size = endio.zone
             /\ endio.after = ToLogical(endio.before)
             /\ ZoneStart(endio.zone) <= endio.after
             /\ endio.after < Boundary(endio.zone)
             /\ endio.after - ZoneStart(endio.zone)
                    = endio.before - endio.zone * dmh.zone_size
        ELSE endio.after = endio.before

C9_Witness ==
    /\ endio.op = "ZONE_APPEND"
    /\ endio.bi_status = "BLK_STS_OK"
    /\ dmh.zone_size_diff >= 1
    /\ endio.zone >= 1
    /\ endio.before > target_to_device_sect(dmh, ci.start)
    /\ endio.after = endio.before + endio.zone * dmh.zone_size_diff

\* C10: whatever dm_po2z_map forwards to the backing device with at least one
\* sector starts at to_physical(start) and lies inside the physical zone with
\* the index of the logical zone of start, hence inside the device.
C10_ForwardedInsideZone ==
    (inflight /\ bio_sectors(bio) >= 1) =>
        LET z == ZoneOf(LastStep.sector)
            n == bio_sectors(bio)
        IN /\ n = LastStep.nr
           /\ bio.bi_bdev = "bdev"
           /\ bio.bi_sector = ToPhysical(LastStep.sector)
           /\ z * dmh.zone_size <= bio.bi_sector
           /\ bio.bi_sector + n <= (z + 1) * dmh.zone_size
           /\ bio.bi_sector + n <= dmh.nr_zones * dmh.zone_size
           /\ bio.bi_sector + n <= bdev.capacity

C10_Witness ==
    /\ inflight
    /\ map_ret = "DM_MAPIO_REMAPPED"
    /\ dmh.zone_size_diff >= 1
    /\ Len(steps) >= 2
    /\ ZoneOf(LastStep.sector) >= 1
    /\ bio_sectors(bio) = dmh.zone_size
    /\ bio.bi_sector # LastStep.sector
====
